---- MODULE Spec2Model ----
(***************************************************************************)
(* Flight search aggregation and progressive filtering of the Index page.  *)
(*                                                                         *)
(* The component state (flights, loading, error, searchPerformed, filters) *)
(* is shared by every invocation of handleSearch.  An invocation is an     *)
(* async closure: its synchronous part runs up to the await, the .then /   *)
(* .catch callbacks run when a fetch promise settles, and the code after   *)
(* `await Promise.allSettled` runs once every promise of that invocation   *)
(* has settled.  React re-renders after every state update; the render     *)
(* evaluates filterAndSortFlights(flights).                                *)
(***************************************************************************)
EXTENDS Integers, Sequences, FiniteSets, TLC

\* ------------------------------------------------------------------ bounds
\* Number of authorised handleSearch invocations in one behaviour.
MaxSearches == 2
\* Number of refused (no permission) handleSearch invocations.
MaxDenied == 1
\* Number of times the user edits the filter panel (FlightFilters).
MaxEdits == 1
\* Longest list of flights handed to the filter pipeline on its own.
MaxInput == 3
\* Number of fetchStats invocations of SearchStatistics, the one made on
\* mount included.
MaxFetches == 3
\* Number of handleDeleteTicket invocations of PendingTickets that reach the
\* backend.
MaxDeletes == 2

\* --------------------------------------------------------------- constants
Airlines == {"VJ", "VNA"}
SortKeys == {"price", "duration", "departure"}
NoReturn == [present |-> FALSE]
NoError == "null"
NoPermissionMsg == "Tinh nang tim kiem chuyen bay da bi khoa"
SearchFailedMsg == "Da xay ra loi khi tim kiem chuyen bay"

\* ------------------------------------------------- text helpers (strings
\* are sequences of one-character strings so that they can be scanned)
DigitChars == {"0", "1", "2", "3", "4", "5", "6", "7", "8", "9"}

DigitVal(c) ==
    CASE c = "0" -> 0 [] c = "1" -> 1 [] c = "2" -> 2 [] c = "3" -> 3
      [] c = "4" -> 4 [] c = "5" -> 5 [] c = "6" -> 6 [] c = "7" -> 7
      [] c = "8" -> 8 [] c = "9" -> 9

\* UTF-16 code unit order of the characters that occur in a time of day.
CharCode(c) == IF c \in DigitChars THEN 48 + DigitVal(c)
               ELSE IF c = ":" THEN 58 ELSE 0

\* duration.replace(/[^\d]/g, '')
StripNonDigits(str) == SelectSeq(str, LAMBDA c : c \in DigitChars)

RECURSIVE DigitsValue(_)
DigitsValue(ds) ==
    IF ds = <<>> THEN 0
    ELSE 10 * DigitsValue(SubSeq(ds, 1, Len(ds) - 1)) + DigitVal(ds[Len(ds)])

\* parseInt of a string of digits; the empty string parses to NaN, which is
\* written -1 here (no string of digits parses to a negative number).
NaN == -1

ParseInt(ds) == IF ds = <<>> THEN NaN ELSE DigitsValue(ds)

\* a.localeCompare(b) on strings of digits and ':' : sign of the first
\* differing character, a proper prefix sorts first.
RECURSIVE LocaleCompare(_, _)
LocaleCompare(a, b) ==
    IF a = <<>> /\ b = <<>> THEN 0
    ELSE IF a = <<>> THEN -1
    ELSE IF b = <<>> THEN 1
    ELSE IF CharCode(Head(a)) < CharCode(Head(b)) THEN -1
    ELSE IF CharCode(Head(a)) > CharCode(Head(b)) THEN 1
    ELSE LocaleCompare(Tail(a), Tail(b))

\* ----------------------------------------------------------------- flights
\* A Flight as the page reads it.  `search` is the number of the handleSearch
\* invocation whose fetch returned the record (the id is unique within it).
MkFlight(id, airline, price, stops, ret, duration, time, baggage) ==
    [id |-> id, search |-> 0, airline |-> airline, price |-> price,
     departure |-> [stops |-> stops, time |-> time],
     return |-> ret, duration |-> duration, baggageType |-> baggage]

VJ100 == MkFlight("VJ-1", "VJ", 100, 0, NoReturn,
                  <<"2", "h", "1", "0", "m">>, <<"0", "9", ":", "0", "0">>, "ECO")
VJ90 == MkFlight("VJ-2", "VJ", 90, 1, NoReturn,
                 <<"5", "h">>, <<"0", "6", ":", "3", "0">>, "ECO")
VNA80 == MkFlight("VNA-1", "VNA", 80, 0, NoReturn,
                  <<"2", "h", "0", "5", "m">>, <<"0", "7", ":", "1", "5">>, "VFR")

\* A round trip whose outbound leg is direct and whose return leg is not.
VNART == MkFlight("VNA-2", "VNA", 300, 0, [present |-> TRUE, stops |-> 2],
                  <<"9", "h">>, <<"1", "1", ":", "0", "0">>, "ECO")
\* A second VietJet fare at the price of VJ100, and a Vietnam Airlines fare
\* that is not VFR.
VJ100B == MkFlight("VJ-3", "VJ", 100, 0, NoReturn,
                   <<"2", "h", "2", "0", "m">>, <<"1", "4", ":", "0", "0">>, "ECO")
VNAECO == MkFlight("VNA-3", "VNA", 120, 0, NoReturn,
                   <<"2", "h">>, <<"1", "8", ":", "4", "5">>, "ECO")

\* The batches a fetch may resolve with.
VJBatches == { <<>>, <<VJ100, VJ90>> }
VNABatches == { <<>>, <<VNA80>>, <<VNART>> }

\* The flights the pipeline is evaluated on when it is checked on its own,
\* and the lists of distinct flights of at most MaxInput of them.
FlightUniverse == {VJ100, VJ90, VJ100B, VNA80, VNART, VNAECO}

RECURSIVE ListsUpTo(_)
ListsUpTo(n) ==
    IF n = 0 THEN { <<>> }
    ELSE LET shorter == ListsUpTo(n - 1)
         IN  shorter \cup {Append(l, x) : l \in shorter, x \in FlightUniverse}

PipelineInputs ==
    {l \in ListsUpTo(MaxInput) :
        \A i \in 1..Len(l), j \in 1..Len(l) : i # j => l[i] # l[j]}

Batches(src) == IF src = "VJ" THEN VJBatches ELSE VNABatches

Tag(batch, s) == [i \in 1..Len(batch) |-> [batch[i] EXCEPT !.search = s]]

\* ----------------------------------------------------------------- filters
\* A reset that leaves the direct-only switch off.
DefaultFiltersDirectOff(available) ==
    [airlines |-> available, showCheapestOnly |-> TRUE,
     directFlightsOnly |-> FALSE, show2pc |-> TRUE, sortBy |-> "price"]

\* setFilters({airlines: availableAirlines, showCheapestOnly: true, ...})
DefaultFilters(available) ==
    [airlines |-> available, showCheapestOnly |-> TRUE,
     directFlightsOnly |-> TRUE, show2pc |-> TRUE, sortBy |-> "price"]

FilterOptions ==
    [airlines : SUBSET Airlines, showCheapestOnly : BOOLEAN,
     directFlightsOnly : BOOLEAN, show2pc : BOOLEAN, sortBy : SortKeys]

\* --------------------------------------------------- filterAndSortFlights
AirlineStage(fl, f) ==
    IF Cardinality(f.airlines) > 0
    THEN SelectSeq(fl, LAMBDA x : x.airline \in f.airlines)
    ELSE fl

\* The direct-only test looking at the outbound leg alone.
IsDirectDepartureOnly(x) == x.departure.stops = 0

IsDirect(x) ==
    IF ~x.return.present THEN x.departure.stops = 0
    ELSE x.departure.stops = 0 /\ x.return.stops = 0

DirectStage(fl, f) ==
    IF f.directFlightsOnly THEN SelectSeq(fl, IsDirect) ELSE fl

\* The two-bag test with the precedence (VJ || VNA) && VFR.
Is2pcOtherPrecedence(x) ==
    (x.airline = "VJ" \/ x.airline = "VNA") /\ x.baggageType = "VFR"

Is2pc(x) == x.airline = "VJ" \/ (x.airline = "VNA" /\ x.baggageType = "VFR")

TwoBagStage(fl, f) ==
    IF f.show2pc THEN SelectSeq(fl, Is2pc) ELSE fl

\* The reduction with the comparison turned round: it keeps the dearest.
RECURSIVE ReduceDearest(_, _)
ReduceDearest(prev, rest) ==
    IF rest = <<>> THEN prev
    ELSE ReduceDearest(IF prev.price > Head(rest).price THEN prev ELSE Head(rest),
                       Tail(rest))

\* arr.reduce((prev, current) => prev.price < current.price ? prev : current)
RECURSIVE ReduceCheapest(_, _)
ReduceCheapest(prev, rest) ==
    IF rest = <<>> THEN prev
    ELSE ReduceCheapest(IF prev.price < Head(rest).price THEN prev ELSE Head(rest),
                        Tail(rest))

CheapestOf(fl, airline) ==
    LET own == SelectSeq(fl, LAMBDA x : x.airline = airline)
    IN  IF Len(own) > 0 THEN <<ReduceCheapest(Head(own), Tail(own))>> ELSE <<>>

CheapestStage(fl, f) ==
    IF f.showCheapestOnly THEN CheapestOf(fl, "VJ") \o CheapestOf(fl, "VNA") ELSE fl

\* The comparator with its operands exchanged: it orders descending.
CompareDescending(a, b, sortBy) ==
    CASE sortBy = "price" -> b.price - a.price
      [] sortBy = "duration" ->
            LET ad == ParseInt(StripNonDigits(a.duration))
                bd == ParseInt(StripNonDigits(b.duration))
            IN  IF ad = NaN \/ bd = NaN THEN 0 ELSE bd - ad
      [] sortBy = "departure" -> LocaleCompare(b.departure.time, a.departure.time)
      [] OTHER -> 0

\* The comparator handed to Array.prototype.sort; NaN compares as 0.
Compare(a, b, sortBy) ==
    CASE sortBy = "price" -> a.price - b.price
      [] sortBy = "duration" ->
            LET ad == ParseInt(StripNonDigits(a.duration))
                bd == ParseInt(StripNonDigits(b.duration))
            IN  IF ad = NaN \/ bd = NaN THEN 0 ELSE ad - bd
      [] sortBy = "departure" -> LocaleCompare(a.departure.time, b.departure.time)
      [] OTHER -> 0

\* An insertion that puts x in front of the elements it compares equal to,
\* as a sort that is not stable may.
RECURSIVE InsertSortedUnstable(_, _, _)
InsertSortedUnstable(x, sorted, sortBy) ==
    IF sorted = <<>> THEN <<x>>
    ELSE IF Compare(Head(sorted), x, sortBy) >= 0 THEN <<x>> \o sorted
    ELSE <<Head(sorted)>> \o InsertSortedUnstable(x, Tail(sorted), sortBy)

\* Array.prototype.sort is a stable sort: x goes behind every element that
\* does not compare greater than it.
RECURSIVE InsertSorted(_, _, _)
InsertSorted(x, sorted, sortBy) ==
    IF sorted = <<>> THEN <<x>>
    ELSE IF Compare(Head(sorted), x, sortBy) > 0 THEN <<x>> \o sorted
    ELSE <<Head(sorted)>> \o InsertSorted(x, Tail(sorted), sortBy)

RECURSIVE SortFlights(_, _)
SortFlights(fl, sortBy) ==
    IF fl = <<>> THEN <<>>
    ELSE InsertSorted(fl[Len(fl)], SortFlights(SubSeq(fl, 1, Len(fl) - 1), sortBy),
                      sortBy)

FilterStages(fl, f) ==
    CheapestStage(TwoBagStage(DirectStage(AirlineStage(fl, f), f), f), f)

filterAndSortFlights(fl, f) == SortFlights(FilterStages(fl, f), f.sortBy)

\* How a call of filterAndSortFlights ends: the function has no throw
\* statement and the comparator returns a number on every branch of its
\* switch, so the call returns `filtered`.
PipelineOutcome(fl, f) ==
    [status |-> "returned", value |-> filterAndSortFlights(fl, f)]

\* `filtered` is still the very array held in the flights state when no
\* stage replaced it by a copy; filtered.sort then sorts that array in place.
SortsInPlace(f) ==
    /\ ~(Cardinality(f.airlines) > 0)
    /\ ~f.directFlightsOnly
    /\ ~f.show2pc
    /\ ~f.showCheapestOnly

\* The flights state after the component function has run again.
Render(fl, f) == IF SortsInPlace(f) THEN SortFlights(fl, f.sortBy) ELSE fl

\* ------------------------------------------------------------------- state
VARIABLES
    flights,            \* useState<Flight[]>
    loading,            \* useState(false)
    error,              \* useState<string | null>
    searchPerformed,    \* useState(false)
    filters,            \* useState<FilterOptions>
    searches,           \* the handleSearch invocations that passed the
                        \* permission check, in call order
    accessDeniedToasts, \* number of "no access" toasts shown
    edits,              \* number of edits made in the filter panel
    searchLogs          \* number of rows inserted into search_logs

\* SearchStatistics (the admin component that reads search_logs)
VARIABLES
    stats,              \* useState<SearchStats[]>
    statsLoading,       \* useState(true)
    filterType,         \* useState<FilterType>('all')
    totalSearches,      \* useState(0)
    fetchCalls          \* the fetchStats invocations, in call order

\* PendingTickets (the admin page of held tickets)
VARIABLES
    tickets,            \* useState<HeldTicket[]>, by ticket id
    deleteTicketId,     \* useState<string | null>
    deleteCalls,        \* the handleDeleteTicket invocations, in call order
    heldTickets         \* the rows of the held_tickets table

vars == <<flights, loading, error, searchPerformed, filters, searches,
          accessDeniedToasts, edits, searchLogs>>

statsVars == <<stats, statsLoading, filterType, totalSearches, fetchCalls>>

ticketVars == <<tickets, deleteTicketId, deleteCalls, heldTickets>>

\* The pages other than Index.
otherPages == <<statsVars, ticketVars>>

NoTicket == "null"

\* The state of a page's hooks before its first effect has run.
StatsUnmounted ==
    /\ stats = <<>>
    /\ statsLoading = TRUE
    /\ filterType = "all"
    /\ totalSearches = 0
    /\ fetchCalls = <<>>

TicketsUnmounted ==
    /\ tickets = <<>>
    /\ deleteTicketId = NoTicket
    /\ deleteCalls = <<>>
    /\ heldTickets = {}

\* What useAuth may deliver; a missing profile grants nothing.
Profiles == [perm_check_vj : BOOLEAN, perm_check_vna : BOOLEAN]

\* A fetch promise of one invocation; "none" when the fetch was not started.
NoPromise == [state |-> "none", value |-> <<>>]
PendingPromise == [state |-> "pending", value |-> <<>>]
Fulfilled(batch) == [state |-> "fulfilled", value |-> batch]
Rejected == [state |-> "rejected", value |-> <<>>]

Settled(p) == p.state \in {"fulfilled", "rejected"}

\* A promise that could be settled again after it has settled.
CanSettleTwice(p) == p.state # "none"

\* A promise settles once: only a pending promise can be fulfilled or rejected.
CanSettle(p) == p.state = "pending"

\* Promise.race in place of Promise.allSettled: the first settlement resolves.
AnySettled(inv) ==
    \/ \E src \in Airlines : Settled(inv.promise[src])
    \/ \A src \in Airlines : inv.promise[src].state = "none"

\* Promise.allSettled(promises): every promise handed to it has settled.
AllSettled(inv) == \A src \in Airlines : inv.promise[src].state # "pending"

\* The continuation of an await whose promise is already resolved is a
\* microtask: it runs before any timer, network or user event is handled.
MicrotaskQueued ==
    \E s \in 1..Len(searches) : searches[s].pc = "await" /\ AllSettled(searches[s])

Init ==
    /\ flights = <<>>
    /\ loading = FALSE
    /\ error = NoError
    /\ searchPerformed = FALSE
    /\ filters = DefaultFilters({"VJ", "VNA"})
    /\ searches = <<>>
    /\ accessDeniedToasts = 0
    /\ edits = 0
    /\ searchLogs = 0
    /\ StatsUnmounted
    /\ TicketsUnmounted

canCheck(profile, src) ==
    IF src = "VJ" THEN profile.perm_check_vj = TRUE
    ELSE profile.perm_check_vna = TRUE

availableAirlines(profile) == {src \in Airlines : canCheck(profile, src)}

\* The closure of one invocation: its promises, where it stands, the pending
\* sound timer, and what it has played and logged so far.  `overlapped`
\* remembers whether an earlier invocation was still running when it began.
Invocation(available) ==
    [promise |-> [src \in Airlines |->
                    IF src \in available THEN PendingPromise ELSE NoPromise],
     pc |-> "await",
     timer |-> FALSE,
     sounds |-> [src \in Airlines |-> 0],
     logged |-> {},
     overlapped |-> \E o \in 1..Len(searches) : searches[o].pc # "done"]

\* supabase.from('search_logs').insert([...]) of an authorised search; a
\* profile that grants a permission is a stored profile and carries its id.
InsertSearchLog(logs) == logs + 1

\* setLoading(true) ... promises.push(...): reset the page and fan out.
BeginSearch(available) ==
    /\ Len(searches) < MaxSearches
    /\ loading' = TRUE
    /\ searchPerformed' = TRUE
    /\ filters' = DefaultFilters(available)
    /\ flights' = Render(<<>>, filters')
    /\ searches' = Append(searches, Invocation(available))
    /\ searchLogs' = InsertSearchLog(searchLogs)
    /\ UNCHANGED <<edits, otherPages>>

\* The refusal branch without its `return`.
HandleSearchNoReturn(profile) ==
    /\ ~MicrotaskQueued
    /\ IF ~canCheck(profile, "VJ") /\ ~canCheck(profile, "VNA")
       THEN /\ accessDeniedToasts < MaxDenied
            /\ accessDeniedToasts' = accessDeniedToasts + 1
            /\ error' = NoError
            /\ BeginSearch(availableAirlines(profile))
       ELSE /\ error' = NoError
            /\ BeginSearch(availableAirlines(profile))
            /\ UNCHANGED accessDeniedToasts

\* handleSearch with the search_logs insert moved above the permission check.
HandleSearchLogsFirst(profile) ==
    /\ ~MicrotaskQueued
    /\ IF ~canCheck(profile, "VJ") /\ ~canCheck(profile, "VNA")
       THEN /\ accessDeniedToasts < MaxDenied
            /\ error' = NoPermissionMsg
            /\ accessDeniedToasts' = accessDeniedToasts + 1
            /\ flights' = Render(flights, filters)
            /\ searchLogs' = InsertSearchLog(searchLogs)
            /\ UNCHANGED <<loading, searchPerformed, filters, searches, edits,
                           otherPages>>
       ELSE /\ error' = NoError
            /\ BeginSearch(availableAirlines(profile))
            /\ UNCHANGED accessDeniedToasts

\* handleSearch up to `await Promise.allSettled(promises)`, called while
\* useAuth delivers the given profile.
HandleSearch(profile) ==
    /\ ~MicrotaskQueued
    /\ IF ~canCheck(profile, "VJ") /\ ~canCheck(profile, "VNA")
       THEN /\ accessDeniedToasts < MaxDenied
            /\ error' = NoPermissionMsg
            /\ accessDeniedToasts' = accessDeniedToasts + 1
            /\ flights' = Render(flights, filters)
            /\ UNCHANGED <<loading, searchPerformed, filters, searches, edits,
                           searchLogs, otherPages>>
       ELSE /\ error' = NoError
            /\ BeginSearch(availableAirlines(profile))
            /\ UNCHANGED accessDeniedToasts

\* The append and the notification without their length check.
NonEmptyOrNot(batch) == TRUE

\* if (vietJetFlights.length > 0) guarding the append and the notification.
NonEmpty(batch) == Len(batch) > 0

\* setFlights(batch): the batch replaces what has been merged so far.
ReplaceFlights(prev, batch) == batch

\* setFlights(prev => [...prev, ...batch])
AppendFlights(prev, batch) == prev \o batch

\* The fetch of source src started by invocation s resolves with a batch and
\* its .then callback runs: append, then notify (at once for VietJet, through
\* a 200 ms timer for Vietnam Airlines).
FetchFulfil(s, src, batch) ==
    /\ ~MicrotaskQueued
    /\ CanSettle(searches[s].promise[src])
    /\ flights' = Render(IF NonEmpty(batch) THEN AppendFlights(flights, batch)
                         ELSE flights,
                         filters)
    /\ searches' =
         [searches EXCEPT
            ![s].promise[src] = Fulfilled(batch),
            ![s].sounds["VJ"] = IF src = "VJ" /\ NonEmpty(batch) THEN @ + 1 ELSE @,
            ![s].timer = IF src = "VNA" /\ NonEmpty(batch) THEN TRUE ELSE @]
    /\ UNCHANGED <<loading, error, searchPerformed, filters,
                   accessDeniedToasts, edits,
                   searchLogs, otherPages>>

\* A rejection that reaches the catch block of handleSearch.
FetchRejectRaises(s, src) ==
    /\ ~MicrotaskQueued
    /\ CanSettle(searches[s].promise[src])
    /\ flights' = Render(flights, filters)
    /\ error' = SearchFailedMsg
    /\ searches' = [searches EXCEPT ![s].promise[src] = Rejected,
                                    ![s].logged = @ \cup {src}]
    /\ UNCHANGED <<loading, searchPerformed, filters, accessDeniedToasts, edits,
                   searchLogs, otherPages>>

\* The fetch rejects and its .catch callback runs: console.error only.
FetchReject(s, src) ==
    /\ ~MicrotaskQueued
    /\ CanSettle(searches[s].promise[src])
    /\ flights' = Render(flights, filters)
    /\ searches' = [searches EXCEPT ![s].promise[src] = Rejected,
                                    ![s].logged = @ \cup {src}]
    /\ UNCHANGED <<loading, error, searchPerformed, filters,
                   accessDeniedToasts, edits,
                   searchLogs, otherPages>>

\* setTimeout(() => playNotificationSound(), 200) fires.
SoundTimer(s) ==
    /\ ~MicrotaskQueued
    /\ searches[s].timer
    /\ searches' = [searches EXCEPT ![s].timer = FALSE, ![s].sounds["VNA"] = @ + 1]
    /\ UNCHANGED <<flights, loading, error, searchPerformed, filters,
                   accessDeniedToasts, edits,
                   searchLogs, otherPages>>

\* allFlights collected from the results of Promise.allSettled.
RECURSIVE AllFlights(_, _)
AllFlights(inv, order) ==
    IF order = <<>> THEN <<>>
    ELSE (IF inv.promise[Head(order)].state = "fulfilled"
          THEN inv.promise[Head(order)].value ELSE <<>>)
         \o AllFlights(inv, Tail(order))

\* allFlights.some(f => f.departure.stops === 0)
hasDirectFlights(allFlights) ==
    \E i \in 1..Len(allFlights) : allFlights[i].departure.stops = 0

\* allFlights.some(f => f.airline === 'VNA' && f.baggageType === 'VFR')
hasVfr2pc(allFlights) ==
    \E i \in 1..Len(allFlights) :
        allFlights[i].airline = "VNA" /\ allFlights[i].baggageType = "VFR"

\* setFilters(prev => ({...prev, directFlightsOnly: ..., show2pc: ...}))
AutoAdjust(f, allFlights) ==
    [f EXCEPT !.directFlightsOnly = IF hasDirectFlights(allFlights) THEN @ ELSE FALSE,
              !.show2pc = IF hasVfr2pc(allFlights) THEN @ ELSE FALSE]

\* handleSearch after the await: auto-adjust the filters, clear loading.
Continue(s) ==
    /\ searches[s].pc = "await"
    /\ AllSettled(searches[s])
    /\ filters' = AutoAdjust(filters, AllFlights(searches[s], <<"VJ", "VNA">>))
    /\ loading' = FALSE
    /\ flights' = Render(flights, filters')
    /\ searches' = [searches EXCEPT ![s].pc = "done"]
    /\ UNCHANGED <<error, searchPerformed, accessDeniedToasts, edits,
                   searchLogs, otherPages>>

\* What the page derives from the state on every render.
filteredFlights == filterAndSortFlights(flights, filters)

shouldShowMoreButton == filters.showCheapestOnly \/ filters.directFlightsOnly

ShowMore(prev) ==
    IF prev.showCheapestOnly THEN [prev EXCEPT !.showCheapestOnly = FALSE]
    ELSE IF prev.directFlightsOnly THEN [prev EXCEPT !.directFlightsOnly = FALSE]
    ELSE [prev EXCEPT !.show2pc = FALSE]

\* A "show more" button that stays on the page after both reductions have
\* been removed.
HandleShowMoreAlwaysRendered ==
    /\ ~MicrotaskQueued
    /\ Len(filteredFlights) > 0
    /\ filters' = ShowMore(filters)
    /\ flights' = Render(flights, filters')
    /\ UNCHANGED <<loading, error, searchPerformed, searches,
                   accessDeniedToasts, edits, searchLogs, otherPages>>

\* A click on the "show more" button, which is rendered inside the block of
\* the non-empty filtered list.
HandleShowMore ==
    /\ ~MicrotaskQueued
    /\ Len(filteredFlights) > 0
    /\ shouldShowMoreButton
    /\ filters' = ShowMore(filters)
    /\ flights' = Render(flights, filters')
    /\ UNCHANGED <<loading, error, searchPerformed, searches,
                   accessDeniedToasts, edits,
                   searchLogs, otherPages>>

\* The values one control of the filter panel can hand to onFiltersChange:
\* an airline ticked or unticked, one switch flipped, a sort key picked.
PanelChoices(f) ==
    {[f EXCEPT !.airlines = (@ \ {a}) \cup ({a} \ @)] : a \in Airlines}
      \cup {[f EXCEPT !.showCheapestOnly = ~@],
            [f EXCEPT !.directFlightsOnly = ~@],
            [f EXCEPT !.show2pc = ~@]}
      \cup {[f EXCEPT !.sortBy = k] : k \in SortKeys \ {f.sortBy}}

\* FlightFilters calls onFiltersChange={setFilters}; the panel is rendered
\* while flights is non-empty.
FiltersChange(f) ==
    /\ ~MicrotaskQueued
    /\ Len(flights) > 0
    /\ edits < MaxEdits
    /\ f \in PanelChoices(filters)
    /\ filters' = f
    /\ flights' = Render(flights, filters')
    /\ edits' = edits + 1
    /\ UNCHANGED <<loading, error, searchPerformed, searches,
                   accessDeniedToasts, searchLogs, otherPages>>

Next ==
    \/ \E profile \in Profiles : HandleSearch(profile)
    \/ \E s \in 1..Len(searches), src \in Airlines :
          \E batch \in Batches(src) : FetchFulfil(s, src, Tag(batch, s))
    \/ \E s \in 1..Len(searches), src \in Airlines : FetchReject(s, src)
    \/ \E s \in 1..Len(searches) : SoundTimer(s)
    \/ \E s \in 1..Len(searches) : Continue(s)
    \/ HandleShowMore
    \/ \E f \in FilterOptions : FiltersChange(f)

Spec == Init /\ [][Next]_vars

\* ----------------------------------------- the pipeline and the reveal
\* ladder on their own: the page rendered with any accumulated list and any
\* filter configuration, and handleShowMore called on it.
PipeInit ==
    /\ \E input \in PipelineInputs, config \in FilterOptions :
          /\ filters = config
          /\ flights = Render(input, config)
    /\ loading = FALSE
    /\ error = NoError
    /\ searchPerformed = TRUE
    /\ searches = <<>>
    /\ accessDeniedToasts = 0
    /\ edits = 0
    /\ searchLogs = 0
    /\ StatsUnmounted
    /\ TicketsUnmounted

\* handleShowMore called as a function, whatever the page renders.
Advance ==
    /\ filters' = ShowMore(filters)
    /\ flights' = Render(flights, filters')
    /\ UNCHANGED <<loading, error, searchPerformed, searches,
                   accessDeniedToasts, edits,
                   searchLogs, otherPages>>

PipeNext == Advance

PipeSpec == PipeInit /\ [][PipeNext]_vars

\* ------------------------------------------ the pipeline handed a sortBy
\* that is none of the cases of the comparator's switch (the filters state
\* is set by whatever the FlightFilters panel passes to setFilters).
UnknownSortKey == "airline"

AnySortKeys == SortKeys \cup {UnknownSortKey}

AnyFilterOptions ==
    [airlines : SUBSET Airlines, showCheapestOnly : BOOLEAN,
     directFlightsOnly : BOOLEAN, show2pc : BOOLEAN, sortBy : AnySortKeys]

KeyInit ==
    /\ \E input \in PipelineInputs, config \in AnyFilterOptions :
          /\ filters = config
          /\ flights = Render(input, config)
    /\ loading = FALSE
    /\ error = NoError
    /\ searchPerformed = TRUE
    /\ searches = <<>>
    /\ accessDeniedToasts = 0
    /\ edits = 0
    /\ searchLogs = 0
    /\ StatsUnmounted
    /\ TicketsUnmounted

KeyNext == Advance

KeySpec == KeyInit /\ [][KeyNext]_vars

TypeOK ==
    /\ loading \in BOOLEAN
    /\ error \in {NoError, NoPermissionMsg, SearchFailedMsg}
    /\ searchPerformed \in BOOLEAN
    /\ filters \in FilterOptions
    /\ Len(searches) <= MaxSearches
    /\ flights = Render(flights, filters)

\* ======================================================= SearchStatistics
FilterTypes == {"all", "month", "day"}

\* The rows of search_logs: one search of u1 in the selected month, two
\* earlier searches of u2, none on the selected day.
SearchLogRows ==
    << [user_id |-> "u1", searched_at |-> "month"],
       [user_id |-> "u2", searched_at |-> "earlier"],
       [user_id |-> "u2", searched_at |-> "earlier"] >>

\* The .gte / .lte range put on the query for a filter type.
InRange(row, f) ==
    CASE f = "month" -> row.searched_at \in {"month", "day"}
      [] f = "day" -> row.searched_at = "day"
      [] OTHER -> TRUE

QueryLogs(f) == SelectSeq(SearchLogRows, LAMBDA row : InRange(row, f))

\* countMap[log.user_id]
CountOf(logs, u) == Len(SelectSeq(logs, LAMBDA row : row.user_id = u))

\* Object.keys(countMap): the user ids in the order of their first log.
RECURSIVE UserIds(_)
UserIds(logs) ==
    IF logs = <<>> THEN <<>>
    ELSE LET before == UserIds(SubSeq(logs, 1, Len(logs) - 1))
             u == logs[Len(logs)].user_id
         IN  IF \E i \in 1..Len(before) : before[i] = u
             THEN before ELSE Append(before, u)

\* .sort((a, b) => b.search_count - a.search_count), a stable sort.
RECURSIVE InsertByCount(_, _)
InsertByCount(row, sorted) ==
    IF sorted = <<>> THEN <<row>>
    ELSE IF row.search_count - Head(sorted).search_count > 0
         THEN <<row>> \o sorted
    ELSE <<Head(sorted)>> \o InsertByCount(row, Tail(sorted))

RECURSIVE SortByCount(_)
SortByCount(rows) ==
    IF rows = <<>> THEN <<>>
    ELSE InsertByCount(rows[Len(rows)], SortByCount(SubSeq(rows, 1, Len(rows) - 1)))

\* statsData: one row per user with its count (the joined name and e-mail
\* do not depend on the filter and are left out).
StatsData(logs) ==
    LET ids == UserIds(logs)
    IN  SortByCount([i \in 1..Len(ids) |->
                       [user_id |-> ids[i], search_count |-> CountOf(logs, ids[i])]])

\* One invocation of fetchStats: the filter type its closure read, where it
\* stands, the rows its query returned and whether the query reported an
\* error.
FetchStatsCall(f) == [filterType |-> f, pc |-> "query", logs |-> <<>>, failed |-> FALSE]

IndexUnmounted ==
    /\ flights = <<>>
    /\ loading = FALSE
    /\ error = NoError
    /\ searchPerformed = FALSE
    /\ filters = DefaultFilters({"VJ", "VNA"})
    /\ searches = <<>>
    /\ accessDeniedToasts = 0
    /\ edits = 0
    /\ searchLogs = 0

\* The component mounted: the effect has called fetchStats once.
StatsInit ==
    /\ stats = <<>>
    /\ statsLoading = TRUE
    /\ filterType = "all"
    /\ totalSearches = 0
    /\ fetchCalls = <<FetchStatsCall("all")>>
    /\ IndexUnmounted
    /\ TicketsUnmounted

\* A filter button is clicked; the effect runs fetchStats up to its first
\* await.  Setting the type it already has re-renders nothing.
SetFilterType(f) ==
    /\ f # filterType
    /\ Len(fetchCalls) < MaxFetches
    /\ filterType' = f
    /\ statsLoading' = TRUE
    /\ fetchCalls' = Append(fetchCalls, FetchStatsCall(f))
    /\ UNCHANGED <<stats, totalSearches, vars, ticketVars>>

\* `await query` resolves with an error: console.error, return, finally.
QueryFails(c) ==
    /\ fetchCalls[c].pc = "query"
    /\ fetchCalls' = [fetchCalls EXCEPT ![c].pc = "done", ![c].failed = TRUE]
    /\ statsLoading' = FALSE
    /\ UNCHANGED <<stats, filterType, totalSearches, vars, ticketVars>>

\* `await query` resolves with the rows: setTotalSearches, and either the
\* early return of an empty result or the two look-ups of user details.
QueryReturns(c) ==
    /\ fetchCalls[c].pc = "query"
    /\ LET logs == QueryLogs(fetchCalls[c].filterType)
       IN  /\ totalSearches' = Len(logs)
           /\ IF Len(UserIds(logs)) = 0
              THEN /\ stats' = <<>>
                   /\ statsLoading' = FALSE
                   /\ fetchCalls' = [fetchCalls EXCEPT ![c].pc = "done"]
              ELSE /\ fetchCalls' = [fetchCalls EXCEPT ![c].pc = "details",
                                                       ![c].logs = logs]
                   /\ UNCHANGED <<stats, statsLoading>>
    /\ UNCHANGED <<filterType, vars, ticketVars>>

\* The look-ups of profiles and users have resolved: setStats, finally.
DetailsReturn(c) ==
    /\ fetchCalls[c].pc = "details"
    /\ stats' = StatsData(fetchCalls[c].logs)
    /\ statsLoading' = FALSE
    /\ fetchCalls' = [fetchCalls EXCEPT ![c].pc = "done"]
    /\ UNCHANGED <<filterType, totalSearches, vars, ticketVars>>

StatsNext ==
    \/ \E f \in FilterTypes : SetFilterType(f)
    \/ \E c \in 1..Len(fetchCalls) : QueryFails(c)
    \/ \E c \in 1..Len(fetchCalls) : QueryReturns(c)
    \/ \E c \in 1..Len(fetchCalls) : DetailsReturn(c)

StatsSpec == StatsInit /\ [][StatsNext]_statsVars

\* ========================================================= PendingTickets
\* The held tickets, newest first, as fetchHeldTickets has loaded them.
TicketIds == <<"t1", "t2", "t3">>

\* One invocation of handleDeleteTicket that passed the null check: the
\* deleteTicketId and the tickets array of the render whose closure it is.
DeleteCall(id, list) == [id |-> id, tickets |-> list, pc |-> "await", ok |-> FALSE]

\* tickets.filter((t) => t.id !== deleteTicketId)
WithoutTicket(list, id) == SelectSeq(list, LAMBDA t : t # id)

\* The page after fetchHeldTickets has loaded the list.
TicketInit ==
    /\ tickets = TicketIds
    /\ deleteTicketId = NoTicket
    /\ deleteCalls = <<>>
    /\ heldTickets = {TicketIds[i] : i \in 1..Len(TicketIds)}
    /\ IndexUnmounted
    /\ StatsUnmounted

\* onClick={() => setDeleteTicketId(ticket.id)}: the bin button of a listed
\* ticket, reachable while the modal dialog is closed.
OpenDeleteDialog(id) ==
    /\ deleteTicketId = NoTicket
    /\ \E i \in 1..Len(tickets) : tickets[i] = id
    /\ deleteTicketId' = id
    /\ UNCHANGED <<tickets, deleteCalls, heldTickets, vars, statsVars>>

\* onOpenChange={() => setDeleteTicketId(null)}: the dialog is dismissed.
CloseDeleteDialog ==
    /\ deleteTicketId # NoTicket
    /\ deleteTicketId' = NoTicket
    /\ UNCHANGED <<tickets, deleteCalls, heldTickets, vars, statsVars>>

\* handleDeleteTicket up to its await: nothing when deleteTicketId is null,
\* else the delete request is sent.
HandleDeleteTicket ==
    /\ IF deleteTicketId = NoTicket
       THEN UNCHANGED deleteCalls
       ELSE /\ Len(deleteCalls) < MaxDeletes
            /\ deleteCalls' = Append(deleteCalls, DeleteCall(deleteTicketId, tickets))
    /\ UNCHANGED <<tickets, deleteTicketId, heldTickets, vars, statsVars>>

\* The delete resolves without error: toast, setTickets, setDeleteTicketId.
DeleteSucceeds(c) ==
    /\ deleteCalls[c].pc = "await"
    /\ heldTickets' = heldTickets \ {deleteCalls[c].id}
    /\ tickets' = WithoutTicket(deleteCalls[c].tickets, deleteCalls[c].id)
    /\ deleteTicketId' = NoTicket
    /\ deleteCalls' = [deleteCalls EXCEPT ![c].pc = "done", ![c].ok = TRUE]
    /\ UNCHANGED <<vars, statsVars>>

\* The delete resolves with an error: throw, catch, toast.
DeleteFails(c) ==
    /\ deleteCalls[c].pc = "await"
    /\ deleteCalls' = [deleteCalls EXCEPT ![c].pc = "done"]
    /\ UNCHANGED <<tickets, deleteTicketId, heldTickets, vars, statsVars>>

TicketNext ==
    \/ \E i \in 1..Len(TicketIds) : OpenDeleteDialog(TicketIds[i])
    \/ CloseDeleteDialog
    \/ HandleDeleteTicket
    \/ \E c \in 1..Len(deleteCalls) : DeleteSucceeds(c)
    \/ \E c \in 1..Len(deleteCalls) : DeleteFails(c)

TicketSpec == TicketInit /\ [][TicketNext]_ticketVars

\* ------------------------------------------------------- claims: helpers
Latest == Len(searches)

Elems(seq) == {seq[i] : i \in 1..Len(seq)}

SameFlights(a, b) == Len(a) = Len(b) /\ Elems(a) = Elems(b)

IsPrefix(a, b) == Len(a) <= Len(b) /\ SubSeq(b, 1, Len(a)) = a

FlightsOf(s) == SelectSeq(flights, LAMBDA x : x.search = s)

Enabled(inv) == {src \in Airlines : inv.promise[src].state # "none"}

PendingSources(inv) == {src \in Airlines : inv.promise[src].state = "pending"}

FailedSources(inv) == {src \in Airlines : inv.promise[src].state = "rejected"}

SucceededWith(inv, src) == inv.promise[src].state = "fulfilled"

\* The latest search, begun when no earlier search was still running.
AloneAndLatest(s) == s = Latest /\ ~searches[s].overlapped

\* What the JSX reads from the component state.
PresentationView ==
    [flights |-> flights, loading |-> loading, error |-> error,
     searchPerformed |-> searchPerformed, filters |-> filters,
     filteredFlights |-> filteredFlights,
     shouldShowMoreButton |-> shouldShowMoreButton]

\* ------------------------------------------------------------------- C1
\* C1: a flight fetched for an earlier search never appears in the
\* accumulated list of a later search: every flight in `flights` was fetched
\* for the latest search.
C1_NoStaleFlights ==
    \A i \in 1..Len(flights) : flights[i].search = Latest

\* ------------------------------------------------------------------- C2
\* C2: a search requested without any permission is refused with the
\* authorization error and starts no fetch: the refusal step creates no
\* promise, and no invocation ever runs with no source to fetch from.
C2_RefusedSearchStartsNoFetch ==
    /\ [](\A s \in 1..Len(searches) : Enabled(searches[s]) # {})
    /\ [][accessDeniedToasts' # accessDeniedToasts
            => (searches' = searches /\ error' = NoPermissionMsg)]_vars

C2_Witness ==
    /\ accessDeniedToasts > 0
    /\ error = NoPermissionMsg
    /\ Len(searches) > 0
    /\ PendingSources(searches[Latest]) # {}

\* ------------------------------------------------------------------- C3
\* C3: with both sources enabled, one failing and the other succeeding (in
\* either order), the flights of the successful batch are all in the
\* accumulated list and loading is off once the invocation has finished; the
\* step in which a fetch fails, and the step that finishes an invocation,
\* leave the error state as it was.
C3_FailureDoesNotBlockSibling ==
    /\ [](\A s \in 1..Len(searches) : \A ok \in Airlines, ko \in Airlines :
            ( /\ s = Latest
              /\ SucceededWith(searches[s], ok)
              /\ searches[s].promise[ko].state = "rejected" )
            => /\ SameFlights(FlightsOf(s), searches[s].promise[ok].value)
               /\ (searches[s].pc = "done" => ~loading))
    /\ [][(\E s \in 1..Len(searches) :
              \/ FailedSources(searches'[s]) # FailedSources(searches[s])
              \/ searches'[s].pc # searches[s].pc)
            => error' = error]_vars

C3_Witness ==
    /\ Latest > 0
    /\ searches[Latest].pc = "done"
    /\ searches[Latest].promise["VJ"].state = "rejected"
    /\ SucceededWith(searches[Latest], "VNA")
    /\ flights = searches[Latest].promise["VNA"].value
    /\ Len(flights) > 0
    /\ error = NoError
    /\ ~loading

\* ------------------------------------------------------------------- C4
\* C4: an invocation finishes (setLoading(false) in its finally block) exactly
\* when none of its sources is pending any more: it has never finished while a
\* source is pending, and when the last source has settled the very next step
\* is its completion, however many sources failed.
C4_DoneExactlyWhenNothingPending ==
    /\ [](\A s \in 1..Len(searches) :
            searches[s].pc = "done" => PendingSources(searches[s]) = {})
    /\ [][\A s \in 1..Len(searches) :
            (searches[s].pc = "await" /\ PendingSources(searches[s]) = {})
            => (searches'[s].pc = "done" /\ loading' = FALSE)]_vars

C4_Witness ==
    \E s \in 1..Len(searches) :
        /\ searches[s].pc = "done"
        /\ FailedSources(searches[s]) # {}
        /\ Cardinality(Enabled(searches[s])) = 2
        /\ ~loading

\* ------------------------------------------------------------------- C5
\* C5: between the start of one search and the start of the next, every step
\* leaves the previous value of `flights` a prefix of the new one.
C5_AccumulatedOnlyGrows ==
    [][Len(searches') = Len(searches) => IsPrefix(flights, flights')]_vars

\* ------------------------------------------------------------------- C6
\* C6: in a search that runs alone, once one source has resolved with a
\* non-empty batch while the other is pending, `flights` holds exactly that
\* batch and the search is still loading; once both have resolved it holds
\* the flights of both batches.
C6_PartialResultsObservable ==
    \A s \in 1..Len(searches) :
        AloneAndLatest(s) =>
          /\ \A src \in Airlines, other \in Airlines :
                ( /\ SucceededWith(searches[s], src)
                  /\ Len(searches[s].promise[src].value) > 0
                  /\ searches[s].promise[other].state = "pending" )
                => /\ SameFlights(flights, searches[s].promise[src].value)
                   /\ loading
                   /\ searches[s].pc = "await"
          /\ (SucceededWith(searches[s], "VJ") /\ SucceededWith(searches[s], "VNA"))
                => SameFlights(flights, searches[s].promise["VJ"].value
                                          \o searches[s].promise["VNA"].value)

C6_Witness ==
    /\ Latest > 0
    /\ AloneAndLatest(Latest)
    /\ SucceededWith(searches[Latest], "VNA")
    /\ searches[Latest].promise["VJ"].state = "pending"
    /\ Len(flights) > 0
    /\ flights = searches[Latest].promise["VNA"].value
    /\ loading

\* ------------------------------------------------------------------- C7
\* C7: when both enabled sources of a search that runs alone have failed and
\* the search has finished, `flights` is empty, one failure is recorded per
\* source, no search error is raised and the "more results" signal is false.
C7_TotalFailure ==
    \A s \in 1..Len(searches) :
        ( /\ AloneAndLatest(s)
          /\ searches[s].pc = "done"
          /\ FailedSources(searches[s]) = Airlines )
        => /\ flights = <<>>
           /\ searches[s].logged = Airlines
           /\ error # SearchFailedMsg
           /\ ~shouldShowMoreButton

\* ------------------------------------------------------------------- C8
\* The view the page shows after a search that ran alone has finished with
\* every enabled source succeeding with zero flights.
EmptySuccessView(inv) ==
    LET f == [DefaultFilters(Enabled(inv)) EXCEPT !.directFlightsOnly = FALSE,
                                                   !.show2pc = FALSE]
    IN  [flights |-> <<>>, loading |-> FALSE, error |-> NoError,
         searchPerformed |-> TRUE, filters |-> f,
         filteredFlights |-> <<>>,
         shouldShowMoreButton |-> TRUE]

\* Every finished search in which all sources returned no flight shows
\* EmptySuccessView.
EmptySuccessShowsThatView ==
    \A s \in 1..Len(searches) :
        ( /\ AloneAndLatest(s)
          /\ searches[s].pc = "done"
          /\ error = NoError
          /\ \A src \in Enabled(searches[s]) :
                SucceededWith(searches[s], src)
                  /\ searches[s].promise[src].value = <<>> )
        => PresentationView = EmptySuccessView(searches[s])

\* C8: a finished search in which some source failed shows a view different
\* from the one shown when every source succeeded with zero flights.
C8_FailureDistinguishable ==
    \A s \in 1..Len(searches) :
        ( /\ AloneAndLatest(s)
          /\ searches[s].pc = "done"
          /\ FailedSources(searches[s]) # {} )
        => PresentationView # EmptySuccessView(searches[s])

\* ------------------------------------------------------------------- C9
\* C9: per search and source, the notification sound is played at most once;
\* a source that resolved with a non-empty batch has played it, or (Vietnam
\* Airlines) has its 200 ms timer running and plays it when the timer fires;
\* a source that resolved empty, failed or is pending has played nothing and
\* has no timer running.
C9_NotifiedOncePerNonEmptyBatch ==
    \A s \in 1..Len(searches) : \A src \in Airlines :
        LET p == searches[s].promise[src]
            played == searches[s].sounds[src]
            armed == src = "VNA" /\ searches[s].timer
        IN  IF p.state = "fulfilled" /\ Len(p.value) > 0
            THEN (played = 1 /\ ~armed) \/ (played = 0 /\ armed)
            ELSE played = 0 /\ ~armed

C9_Witness ==
    \E s \in 1..Len(searches) :
        /\ SucceededWith(searches[s], "VNA")
        /\ Len(searches[s].promise["VNA"].value) > 0
        /\ searches[s].sounds["VNA"] = 1
        /\ SucceededWith(searches[s], "VJ")
        /\ searches[s].promise["VJ"].value = <<>>
        /\ searches[s].sounds["VJ"] = 0

\* ------------------------------------------------------------------ C10
\* C10: per search, each source gets at most one terminal outcome: a settled
\* promise never changes again, no flight is in `flights` twice, a failed
\* source has no flight in `flights`, and a failure is logged for exactly the
\* sources that were rejected (never for one that succeeded).
C10_OneOutcomePerSource ==
    /\ [](\A s \in 1..Len(searches) : \A src \in Airlines :
            /\ (src \in searches[s].logged
                  <=> searches[s].promise[src].state = "rejected")
            /\ (searches[s].promise[src].state # "fulfilled"
                  => \A i \in 1..Len(flights) :
                        ~(flights[i].search = s /\ flights[i].airline = src)))
    /\ [](\A i \in 1..Len(flights), j \in 1..Len(flights) :
            i # j => flights[i] # flights[j])
    /\ [][\A s \in 1..Len(searches) : \A src \in Airlines :
            searches[s].promise[src].state \in {"fulfilled", "rejected"}
            => searches'[s].promise[src] = searches[s].promise[src]]_vars

C10_Witness ==
    \E s \in 1..Len(searches) :
        /\ searches[s].pc = "done"
        /\ SucceededWith(searches[s], "VJ")
        /\ Len(FlightsOf(s)) = Len(searches[s].promise["VJ"].value)
        /\ Len(FlightsOf(s)) > 0
        /\ searches[s].promise["VNA"].state = "rejected"
        /\ searches[s].logged = {"VNA"}

\* ------------------------------------------------------------------ C11
\* C11: the step that starts an authorised search leaves showCheapestOnly
\* and directFlightsOnly true, airlines equal to the permitted sources and
\* `flights` empty, whatever the configuration was before.
C11_SearchStartResets ==
    [][Len(searches') > Len(searches)
        => /\ filters'.showCheapestOnly
           /\ filters'.directFlightsOnly
           /\ filters'.airlines = Enabled(searches'[Len(searches')])
           /\ flights' = <<>>]_vars

C11_Witness ==
    /\ Len(searches) = 2
    /\ searches[1].pc = "done"
    /\ edits > 0
    /\ PendingSources(searches[2]) = Enabled(searches[2])
    /\ filters.showCheapestOnly /\ filters.directFlightsOnly
    /\ filters.airlines = Enabled(searches[2])
    /\ flights = <<>>

\* ------------------------------------------------------------------ C12
\* C12: a call of handleShowMore clears only showCheapestOnly when it is set,
\* otherwise only directFlightsOnly when that is set, and otherwise changes
\* nothing of the configuration (show2pc included).
C12_AdvanceLadder ==
    [][filters' = IF filters.showCheapestOnly
                  THEN [filters EXCEPT !.showCheapestOnly = FALSE]
                  ELSE IF filters.directFlightsOnly
                  THEN [filters EXCEPT !.directFlightsOnly = FALSE]
                  ELSE filters]_vars

\* ------------------------------------------------------------------ C13
\* The predicates of pipeline stages 2 and 3 as the specification words them.
DirectPredicate(x) ==
    x.departure.stops = 0 /\ (x.return.present => x.return.stops = 0)

TwoBagPredicate(x) ==
    x.airline = "VJ" \/ (x.airline = "VNA" /\ x.baggageType = "VFR")

\* The result set of invocation s once all its promises have settled.
ResultSet(s) ==
    UNION {Elems(searches[s].promise[src].value) : src \in Airlines}

\* C13: when an invocation finishes, directFlightsOnly becomes false if and
\* only if no flight of its result set is direct on the outbound and, for a
\* round trip, on the return leg; otherwise it keeps its value.
C13_DirectDowngrade ==
    [][\A s \in 1..Len(searches) :
         (searches[s].pc = "await" /\ searches'[s].pc = "done")
         => filters'.directFlightsOnly
              = (filters.directFlightsOnly
                   /\ \E x \in ResultSet(s) : DirectPredicate(x))]_vars

\* ------------------------------------------------------------------ C14
\* C14: when an invocation finishes, show2pc becomes false if and only if no
\* flight of its result set satisfies the two-bag predicate (VJ, or VNA with
\* VFR baggage); a result set of VietJet flights only leaves it true.
C14_TwoBagDowngrade ==
    [][\A s \in 1..Len(searches) :
         (searches[s].pc = "await" /\ searches'[s].pc = "done")
         => filters'.show2pc
              = (filters.show2pc /\ \E x \in ResultSet(s) : TwoBagPredicate(x))]_vars

\* ------------------------------------------------------------------ C15
\* C15: no flight of the current search is shown through the pipeline before
\* the auto-adjustment of that search has been applied.
C15_AdjustedBeforeRender ==
    \A s \in 1..Len(searches) :
        (s = Latest /\ searches[s].pc = "await")
        => \A i \in 1..Len(filteredFlights) : filteredFlights[i].search # s

\* ------------------------------------------------------------------ C16
\* C16: the pipeline output holds no flight whose airline is not in
\* filters.airlines, also when filters.airlines is empty.
C16_OnlySelectedAirlines ==
    \A i \in 1..Len(filteredFlights) :
        filteredFlights[i].airline \in filters.airlines

\* ------------------------------------------------------------------ C17
\* C17: with directFlightsOnly a flight survives the direct-only stage if and
\* only if its outbound leg has no stop and it has no return leg or a return
\* leg without stop; without directFlightsOnly the stage drops nothing.
C17_DirectStage ==
    DirectStage(flights, filters)
      = IF filters.directFlightsOnly THEN SelectSeq(flights, DirectPredicate)
        ELSE flights

C17_Witness ==
    /\ filters.directFlightsOnly
    /\ VNART \in Elems(flights)
    /\ VJ100 \in Elems(flights)
    /\ VNART \notin Elems(DirectStage(flights, filters))
    /\ VJ100 \in Elems(DirectStage(flights, filters))

\* ------------------------------------------------------------------ C18
\* C18: with show2pc a flight survives the two-bag stage if and only if it is
\* a VietJet flight or a Vietnam Airlines flight with VFR baggage; without
\* show2pc the stage drops nothing.
C18_TwoBagStage ==
    TwoBagStage(flights, filters)
      = IF filters.show2pc THEN SelectSeq(flights, TwoBagPredicate) ELSE flights

C18_Witness ==
    /\ filters.show2pc
    /\ {VNAECO, VNA80, VJ100} \subseteq Elems(flights)
    /\ VNAECO \notin Elems(TwoBagStage(flights, filters))
    /\ {VNA80, VJ100} \subseteq Elems(TwoBagStage(flights, filters))

\* ------------------------------------------------------------------ C19
\* What reaches the cheapest-only stage.
BeforeCheapest == TwoBagStage(DirectStage(AirlineStage(flights, filters), filters),
                              filters)

\* C19: with showCheapestOnly the output holds at most one flight per airline,
\* and for every airline with a flight surviving stages 1-3 the output flight
\* of that airline costs no more than any surviving flight of that airline.
C19_CheapestPerAirline ==
    filters.showCheapestOnly =>
      \A a \in Airlines :
        LET out == SelectSeq(filteredFlights, LAMBDA x : x.airline = a)
            pre == SelectSeq(BeforeCheapest, LAMBDA x : x.airline = a)
        IN  /\ Len(out) <= 1
            /\ Len(pre) > 0
                 => /\ Len(out) = 1
                    /\ out[1] \in Elems(pre)
                    /\ \A j \in 1..Len(pre) : out[1].price <= pre[j].price

C19_Witness ==
    /\ filters.showCheapestOnly
    /\ {VJ100, VJ90} \subseteq Elems(BeforeCheapest)
    /\ VJ90 \in Elems(filteredFlights)
    /\ VJ100 \notin Elems(filteredFlights)

\* ------------------------------------------------------------------ C20
\* C20: with showCheapestOnly, the flight kept for an airline is the first in
\* input order among the flights of that airline at the minimum price.
C20_FirstOfEqualMinima ==
    filters.showCheapestOnly =>
      \A i \in 1..Len(filteredFlights) :
        \A k \in 1..Len(BeforeCheapest), j \in 1..Len(BeforeCheapest) :
          ( /\ BeforeCheapest[k] = filteredFlights[i]
            /\ j < k
            /\ BeforeCheapest[j].airline = filteredFlights[i].airline )
          => BeforeCheapest[j].price # filteredFlights[i].price

\* ------------------------------------------------------------------ C21
\* The key the sort stage orders by, as a number.
SortKeyOf(x, sortBy) ==
    CASE sortBy = "price" -> x.price
      [] sortBy = "duration" -> DigitsValue(StripNonDigits(x.duration))
      [] sortBy = "departure" -> DigitsValue(StripNonDigits(x.departure.time))

\* What reaches the sort stage.
AfterFilters == FilterStages(flights, filters)

PositionIn(seq, x) == CHOOSE i \in 1..Len(seq) : seq[i] = x

\* C21: the output holds the flights that survive the filter stages, in
\* ascending order of the key chosen by sortBy, and two output flights with
\* equal keys stand in the order they had after the filter stages.
C21_SortedAndStable ==
    /\ SameFlights(filteredFlights, AfterFilters)
    /\ \A i \in 1..Len(filteredFlights), j \in 1..Len(filteredFlights) :
         i < j =>
           LET ki == SortKeyOf(filteredFlights[i], filters.sortBy)
               kj == SortKeyOf(filteredFlights[j], filters.sortBy)
           IN  /\ ki <= kj
               /\ ki = kj => PositionIn(AfterFilters, filteredFlights[i])
                               < PositionIn(AfterFilters, filteredFlights[j])

C21_Witness ==
    /\ filters.sortBy = "price"
    /\ AfterFilters = <<VJ100B, VJ100, VJ90>>
    /\ filteredFlights = <<VJ90, VJ100B, VJ100>>

\* ------------------------------------------------------------------ C22
\* C22: a call of the pipeline with a sortBy outside the enumeration ends
\* with an error thrown, not with a returned list.
C22_UnknownSortKeyFails ==
    filters.sortBy \notin SortKeys
      => PipelineOutcome(flights, filters).status = "threw"

\* ------------------------------------------------------------------ C23
\* C23: the pipeline run on its own output with the same configuration
\* returns that output.
C23_Idempotent ==
    filterAndSortFlights(filteredFlights, filters) = filteredFlights

C23_Witness ==
    /\ filters.sortBy = "price"
    /\ ~filters.showCheapestOnly
    /\ flights = <<VNAECO, VJ100B, VJ100>>
    /\ filteredFlights = <<VJ100B, VJ100, VNAECO>>

\* ------------------------------------------------------------------ C24
\* C24: a step that neither starts a search nor fulfils a fetch promise (the
\* merge steps) leaves `flights` as it was, in content and order.
C24_PipelinePure ==
    [][( /\ Len(searches') = Len(searches)
         /\ \A s \in 1..Len(searches), src \in Airlines :
               ~( /\ searches[s].promise[src].state = "pending"
                  /\ searches'[s].promise[src].state = "fulfilled" ) )
       => flights' = flights]_vars

\* ------------------------------------------------------------------ C25
\* C25: when an earlier invocation passes its await while the latest search
\* still has a pending source, the step leaves the loading flag and the
\* directFlightsOnly and show2pc switches as they were.
C25_StaleCompletionIsInert ==
    [][\A s \in 1..Len(searches) :
         ( /\ Len(searches') = Len(searches)
           /\ s < Latest
           /\ searches[s].pc = "await"
           /\ searches'[s].pc = "done"
           /\ PendingSources(searches[Latest]) # {} )
         => /\ loading' = loading
            /\ filters'.directFlightsOnly = filters.directFlightsOnly
            /\ filters'.show2pc = filters.show2pc]_vars

\* ------------------------------------------------------------------ C26
\* C26: once a search that ran alone has completed with flights of permitted
\* airlines and the filter panel has not been used, the pipeline output is
\* not empty (the "show more" button exists only inside the block of a
\* non-empty output, so an empty output leaves nothing to click).
C26_NeverStuck ==
    ( /\ Latest > 0
      /\ \A s \in 1..Len(searches) :
            searches[s].pc = "done" /\ ~searches[s].overlapped
      /\ edits = 0
      /\ Len(flights) > 0
      /\ \A i \in 1..Len(flights) : flights[i].airline \in filters.airlines )
    => Len(filteredFlights) > 0

\* ------------------------------------------------------------------ C27
\* C27: a step that changes the filters without starting or finishing a
\* search, refusing one, or editing the panel is a click on the rendered
\* "show more" button; it leaves show2pc, airlines and sortBy as they were.
C27_ClicksNeverReachFallback ==
    [][( /\ filters' # filters
         /\ searches' = searches
         /\ edits' = edits
         /\ accessDeniedToasts' = accessDeniedToasts )
       => /\ filters'.show2pc = filters.show2pc
          /\ filters'.airlines = filters.airlines
          /\ filters'.sortBy = filters.sortBy]_vars

\* Both reductions were removed by clicks (the only flight is direct, so the
\* auto-adjustment left directFlightsOnly alone) and show2pc is still on.
C27_Witness ==
    /\ Len(searches) = 1
    /\ searches[1].pc = "done"
    /\ edits = 0
    /\ Len(flights) = 1
    /\ flights[1].id = "VNA-1"
    /\ ~filters.showCheapestOnly
    /\ ~filters.directFlightsOnly
    /\ filters.show2pc
    /\ ~shouldShowMoreButton

\* ------------------------------------------------------------------ C28
\* C28: a refused search (one more "no access" toast) sets the error message
\* and leaves flights, filters, loading, searchPerformed, the running
\* invocations and the search_logs table as they were.
C28_RefusalOnlyReports ==
    [][accessDeniedToasts' > accessDeniedToasts
       => /\ error' = NoPermissionMsg
          /\ flights' = flights
          /\ filters' = filters
          /\ loading' = loading
          /\ searchPerformed' = searchPerformed
          /\ searches' = searches
          /\ searchLogs' = searchLogs]_vars

\* A search refused while the results of an earlier search are on the page.
C28_Witness ==
    /\ accessDeniedToasts > 0
    /\ error = NoPermissionMsg
    /\ Len(searches) = 1
    /\ searches[1].pc = "done"
    /\ Len(flights) > 0
    /\ searchLogs = 1
    /\ searchPerformed
    /\ ~filters.showCheapestOnly

\* ------------------------------------------------------------------ C29
\* C29: once every fetchStats call has completed, none with a query error,
\* and the filter was changed at least once, the page shows the total and
\* the rows of the filter type now selected and is not loading.
C29_LatestFilterWins ==
    ( /\ Len(fetchCalls) > 1
      /\ \A c \in 1..Len(fetchCalls) :
            fetchCalls[c].pc = "done" /\ ~fetchCalls[c].failed )
    => /\ totalSearches = Len(QueryLogs(filterType))
       /\ stats = StatsData(QueryLogs(filterType))
       /\ ~statsLoading

\* ------------------------------------------------------------------ C30
\* C30: the step in which a delete request comes back removes from the list
\* exactly the ticket it was sent for and clears deleteTicketId when the
\* backend deleted it, and leaves the list and deleteTicketId alone when the
\* backend reported an error.
C30_DeleteRemovesExactlyOne ==
    [][\A c \in 1..Len(deleteCalls) :
         ( /\ Len(deleteCalls') = Len(deleteCalls)
           /\ deleteCalls[c].pc = "await"
           /\ deleteCalls'[c].pc = "done" )
         => IF deleteCalls'[c].ok
            THEN /\ tickets' = SelectSeq(tickets, LAMBDA t : t # deleteCalls[c].id)
                 /\ deleteTicketId' = NoTicket
            ELSE /\ tickets' = tickets
                 /\ deleteTicketId' = deleteTicketId]_ticketVars

====
